---- MODULE Spec2Model ----
(***************************************************************************)
(* A model of lingvo/core/tpu_embedding_layers.py (TPUEmbeddingTable,      *)
(* TPUEmbeddingLayer and their optimizers) and of the preprocessors        *)
(* exercised by lingvo/tasks/car/input_preprocessors_test.py.              *)
(*                                                                         *)
(* Python values are represented as follows.  An optional value is a       *)
(* sequence: <<>> is None and <<v>> is the value v.  A dict is a function  *)
(* whose domain is its key set.  A list is a sequence; host i of           *)
(* range(num_tpu_hosts) sits at index i + 1.  A raised exception is the    *)
(* status field of the object under construction.                          *)
(***************************************************************************)
EXTENDS Integers, Sequences, FiniteSets, TLC

VARIABLES pc, use_tpu, do_eval, tparams, table, graph, lr_out, ids_map, ret,
          lparams, layer, preprocessor, new_shapes, new_dtypes, layers

tvars == <<pc, use_tpu, do_eval, tparams, table, graph, lr_out, ids_map, ret>>
lvars == <<lparams, layer>>
pvars == <<preprocessor, new_shapes, new_dtypes>>
vars == <<tvars, lvars, pvars, layers>>

---------------------------------------------------------------------------
(* Bounds of the explored parameter space. *)
MaxVocab == 4
MaxDim == 2
MaxHosts == 3
MaxSeqLen == 2
MaxStep == 1
MaxCalls == 2
MaxBatch == 2
MaxIdsLen == 2
MaxSubs == 3
MaxLayers == 2

---------------------------------------------------------------------------
(* Python values. *)
None == <<>>
Some(x) == <<x>>

\* bool(x) of an optional integer: None and 0 are false.
Truthy(x) == x # None /\ x[1] # 0

EmptyDict == <<>>
Put(d, k, v) == [x \in (DOMAIN d) \cup {k} |-> IF x = k THEN v ELSE d[x]]
Del(d, k) == [x \in (DOMAIN d) \ {k} |-> d[x]]

---------------------------------------------------------------------------
(* The graph: the variables created so far and the named collections. *)
EmptyGraph ==
    [variables |-> <<>>,
     TPU_EMBEDDING_SUMMARY_TENSORS |-> <<>>,
     TPU_EMBEDDING_LOAD_OPS |-> <<>>,
     TPU_EMBEDDING_RETRIEVE_OPS |-> <<>>,
     TPU_EMBEDDING |-> <<>>,
     TPU_EMBEDDING_ACTIVATIONS |-> <<>>]

\* _AddTpuEmbeddingSummaryTensor(name, value, weight=1.0)
AddTpuEmbeddingSummaryTensor(g, name, value) ==
    [g EXCEPT !.TPU_EMBEDDING_SUMMARY_TENSORS =
        Append(@, [name |-> name, value |-> value, weight |-> 1])]

---------------------------------------------------------------------------
(* Optimizers. *)

\* TPUEmbeddingSGDOptimizer.__init__ / TPUEmbeddingAdagradOptimizer.__init__:
\* the child layer built from optimizer params op.
OptimizerNew(op) ==
    IF op.cls = "TPUEmbeddingAdagradOptimizer"
    THEN [cls |-> op.cls,
          params |-> op,
          tpu_embedding_optimizer_parameters |->
              [kind |-> "AdagradParameters",
               learning_rate |-> op.learning_rate,
               initial_accumulator |-> op.initial_accumulator]]
    ELSE [cls |-> op.cls,
          params |-> op,
          tpu_embedding_optimizer_parameters |->
              [kind |-> "StochasticGradientDescentParameters",
               learning_rate |-> op.learning_rate]]

---------------------------------------------------------------------------
(* TPUEmbeddingTable.__init__ *)

\* The assertions that open the constructor.
TableAsserts(p) ==
    /\ p.vocab_size > 0
    /\ p.embedding_dim > 0
    /\ p.input_keys # <<>>
    /\ p.name # ""
    /\ p.num_tpu_hosts > 0
    /\ (p.combiner = "None" => Truthy(p.max_sequence_length))
    /\ ((p.max_sequence_length # None /\ p.max_sequence_length[1] > 0)
            => p.combiner = "None")

\* math.ceil(float(v) / n) for v >= 0, n > 0.  float(v) is exact for the
\* integers below 2^53, which covers every value TLC's integers can hold.
CeilOfQuotient(v, n) == IF v % n = 0 THEN v \div n ELSE (v \div n) + 1

IdsPerShardFloor(p) == p.vocab_size \div p.num_tpu_hosts

\* self._ids_per_shard
IdsPerShard(p) == CeilOfQuotient(p.vocab_size, p.num_tpu_hosts)

\* self._padded_vocab_size
PaddedVocabSize(p) == IdsPerShard(p) * p.num_tpu_hosts

\* self._max_sequence_length: 0 unless the param is truthy.
MaxSequenceLength(p) ==
    IF Truthy(p.max_sequence_length) THEN p.max_sequence_length[1] ELSE 0

\* schedule.Value(step): the schedules are opaque, so the value is the pair
\* of the schedule and the step it was asked for.
ScheduleValue(schedule, step) == [schedule |-> schedule, step |-> step]

\* GetLearningRateFn(): None without an lr_schedule, else the closure
\* LearningRateFn over the schedule child.
GetLearningRateFn(p) ==
    IF p.lr_schedule = None
    THEN None
    ELSE Some([fn |-> "LearningRateFn", name |-> p.name,
               schedule |-> p.lr_schedule[1]])

LearningRateFnAtZero(f, step) == ScheduleValue(f.schedule, 0)

\* LearningRateFn(step): lr = self.schedule.Value(step)
LearningRateFn(f, step) == ScheduleValue(f.schedule, step)

\* tpu_embedding_lib.TableConfig(...) as called by the constructor.  The
\* library's constructor refuses (ValueError) a combiner outside
\* mean/sum/sqrtn/None and a learning_rate given together with a
\* learning_rate_fn.
TableConfigValid(combiner, learning_rate, learning_rate_fn) ==
    /\ combiner \in {"mean", "sum", "sqrtn", "None"}
    /\ ~(learning_rate # None /\ learning_rate_fn # None)

TableConfig(p) ==
    [vocabulary_size |-> PaddedVocabSize(p),
     dimension |-> p.embedding_dim,
     combiner |-> p.combiner,
     learning_rate |-> p.learning_rate,
     learning_rate_fn |-> GetLearningRateFn(p),
     optimization_parameters |->
         OptimizerNew(p.optimizer[1]).tpu_embedding_optimizer_parameters]

Failed(exc) == [status |-> exc]

\* The table object a successful constructor leaves.
TableNew(p) ==
    IF ~TableAsserts(p) THEN Failed("AssertionError")
    ELSE IF ~TableConfigValid(p.combiner, p.learning_rate, GetLearningRateFn(p))
    THEN Failed("ValueError")
    ELSE [status |-> "ok",
          params |-> p,
          ids_per_shard |-> IdsPerShard(p),
          padded_vocab_size |-> PaddedVocabSize(p),
          input_keys |-> p.input_keys,
          max_sequence_length |-> MaxSequenceLength(p),
          optimizer |-> OptimizerNew(p.optimizer[1]),
          schedule |-> p.lr_schedule,
          table_name |-> p.name \o "_table",
          table_config |-> TableConfig(p),
          load_op_list |-> <<>>,
          retrieve_op_list |-> <<>>,
          private_vars |-> EmptyDict,
          private_theta |-> EmptyDict]

---------------------------------------------------------------------------
(* TPUEmbeddingTable._CreateLayerVariables and the optimizers'              *)
(* CreateSlotVariablesAndOps.                                               *)

\* self.cluster.params.worker.name
WorkerName == "/job:trainer_client"

\* TPUEmbeddingTable.GetDeviceName(host_id)
GetDeviceName(eval, host_id) ==
    IF eval
    THEN None
    ELSE Some(WorkerName \o "/replica:0/task:" \o ToString(host_id)
              \o "/device:CPU:0")

\* TPUEmbeddingTable.GetVariableName(host_id)
GetVariableName(host_id) == "var_" \o ToString(host_id)

\* py_utils.WeightParams(shape, init, dtype, collections)
WeightParams(shape, init, collections) ==
    [shape |-> shape, init |-> init, collections |-> collections]

\* The tf variable that CreateVariable(name, w, trainable) makes under
\* tf.device(device), in the variable scope of the layer that makes it.
Variable(scope, name, w, trainable, device) ==
    [scope |-> scope, name |-> name, shape |-> w.shape, init |-> w.init,
     collections |-> w.collections, trainable |-> trainable,
     device |-> device]

\* tf.identity(v)
Identity(v) == [identity |-> v.name]

\* CreateVariable(name, w, trainable) on the state st of the layer being
\* built: the variable joins the graph, self._private_vars[name] and
\* self._private_theta[name].
CreateVariable(st, name, w, trainable, device) ==
    LET v == Variable(st.scope, name, w, trainable, device)
    IN [st EXCEPT !.variables = Append(@, v),
                  !.private_vars = Put(@, name, v),
                  !.private_theta = Put(@, name, Identity(v))]

\* One pass of the loop of lines 310-319, for host i.
ShardStep(st, t, eval, i) ==
    LET w_pc == WeightParams(<<t.ids_per_shard, t.params.embedding_dim>>,
                             [method |-> "params_init", value |-> None],
                             <<"TPUEmbeddingTable_vars">>)
        var_name == GetVariableName(i)
        made == CreateVariable(st, var_name, w_pc, TRUE,
                               GetDeviceName(eval, i))
    IN [made EXCEPT
            !.embedding_table_vars = Append(@, made.private_vars[var_name]),
            !.private_vars = Del(@, var_name),
            !.private_theta = Del(@, var_name)]

RECURSIVE ShardLoop(_, _, _, _)
\* for i in range(p.num_tpu_hosts), from host i on.
ShardLoop(st, t, eval, i) ==
    IF i >= t.params.num_tpu_hosts THEN st
    ELSE ShardLoop(ShardStep(st, t, eval, i), t, eval, i + 1)

LoadOp(opt, table_var, acc, table_name, num_shards, shard_id) ==
    IF opt.cls = "TPUEmbeddingAdagradOptimizer"
    THEN [op |-> "load_tpu_embedding_adagrad_parameters",
          parameters |-> table_var.name, accumulators |-> acc,
          table_name |-> table_name, num_shards |-> num_shards,
          shard_id |-> shard_id]
    ELSE [op |-> "load_tpu_embedding_stochastic_gradient_descent_parameters",
          parameters |-> table_var.name,
          table_name |-> table_name, num_shards |-> num_shards,
          shard_id |-> shard_id]

\* The retrieve op: the group of the assignments from the retrieved values.
RetrieveOp(opt, table_var, acc, table_name, num_shards, shard_id) ==
    [op |-> IF opt.cls = "TPUEmbeddingAdagradOptimizer"
            THEN "retrieve_tpu_embedding_adagrad_parameters"
            ELSE "retrieve_tpu_embedding_stochastic_gradient_descent_parameters",
     table_name |-> table_name, num_shards |-> num_shards,
     shard_id |-> shard_id,
     assigns |-> <<table_var.name>> \o acc]

SlotStepOnHostZero(st, t, eval, i) ==
    IF t.optimizer.cls = "TPUEmbeddingAdagradOptimizer"
    THEN LET table_var == st.embedding_table_vars[i + 1]
             w_ada == WeightParams(
                          table_var.shape,
                          [method |-> "Constant",
                           value |-> Some(t.optimizer.params.initial_accumulator)],
                          <<"TPUEmbeddingTable_vars">>)
         IN CreateVariable(st, GetVariableName(i) \o "/Adagrad", w_ada,
                           FALSE, GetDeviceName(eval, 0))
    ELSE st

\* The slot variable of host i: Adagrad's accumulator (lines 171-179); SGD
\* has none.
SlotStep(st, t, eval, i) ==
    IF t.optimizer.cls = "TPUEmbeddingAdagradOptimizer"
    THEN LET table_var == st.embedding_table_vars[i + 1]
             w_ada == WeightParams(
                          table_var.shape,
                          [method |-> "Constant",
                           value |-> Some(t.optimizer.params.initial_accumulator)],
                          <<"TPUEmbeddingTable_vars">>)
         IN CreateVariable(st, GetVariableName(i) \o "/Adagrad", w_ada,
                           FALSE, GetDeviceName(eval, i))
    ELSE st

\* The accumulator the ops of host i name: the slot variable just made.
Accumulator(st, t, i) ==
    IF t.optimizer.cls = "TPUEmbeddingAdagradOptimizer"
    THEN <<st.private_vars[GetVariableName(i) \o "/Adagrad"].name>>
    ELSE <<>>

\* One pass of the loop of CreateSlotVariablesAndOps, for host_id i.
SlotAndOpsStep(st, t, tpu, eval, i) ==
    LET made == SlotStep(st, t, eval, i)
        table_var == st.embedding_table_vars[i + 1]
        acc == Accumulator(made, t, i)
        n == t.params.num_tpu_hosts
    IN IF tpu
       THEN [made EXCEPT
                !.load_op_list = Append(@,
                    LoadOp(t.optimizer, table_var, acc, t.table_name, n, i)),
                !.retrieve_op_list = Append(@,
                    RetrieveOp(t.optimizer, table_var, acc, t.table_name, n, i))]
       ELSE made

Min(a, b) == IF a < b THEN a ELSE b

RECURSIVE SlotLoop(_, _, _, _, _)
\* for host_id, table_var in zip(range(num_tpu_hosts), table_vars)
SlotLoop(st, t, tpu, eval, i) ==
    IF i >= Min(t.params.num_tpu_hosts, Len(st.embedding_table_vars)) THEN st
    ELSE SlotLoop(SlotAndOpsStep(st, t, tpu, eval, i), t, tpu, eval, i + 1)

\* optimizer.CreateSlotVariablesAndOps(embedding_table_vars, self)
CreateSlotVariablesAndOps(st, t, tpu, eval) == SlotLoop(st, t, tpu, eval, 0)

ExposeWmAlways(st, tpu) ==
    [st EXCEPT
        !.private_vars = Put(@, "wm", st.embedding_table_vars),
        !.private_theta = Put(@, "wm",
            [i \in 1..Len(st.embedding_table_vars) |->
                Identity(st.embedding_table_vars[i])])]

\* Lines 321-326: on the host path the shards are exposed as wm.
ExposeWm(st, tpu) ==
    IF ~tpu
    THEN [st EXCEPT
            !.private_vars = Put(@, "wm", st.embedding_table_vars),
            !.private_theta = Put(@, "wm",
                [i \in 1..Len(st.embedding_table_vars) |->
                    Identity(st.embedding_table_vars[i])])]
    ELSE st

SlotsAlways(st, t, tpu, eval) == SlotLoop(st, t, tpu, eval, 0)

\* Lines 328-331.
SlotsUnlessEval(st, t, tpu, eval) ==
    IF ~eval THEN CreateSlotVariablesAndOps(st, t, tpu, eval) ELSE st

\* TPUEmbeddingTable._CreateLayerVariables in graph g: the table and the
\* graph it leaves.
TableCreateLayerVariables(t, g, tpu, eval) ==
    LET st0 == [scope |-> t.params.name,
                variables |-> g.variables,
                private_vars |-> t.private_vars,
                private_theta |-> t.private_theta,
                embedding_table_vars |-> <<>>,
                load_op_list |-> t.load_op_list,
                retrieve_op_list |-> t.retrieve_op_list]
        st1 == ShardLoop(st0, t, eval, 0)
        st2 == ExposeWm(st1, tpu)
        st3 == SlotsUnlessEval(st2, t, tpu, eval)
    IN [table |-> [t EXCEPT !.private_vars = st3.private_vars,
                            !.private_theta = st3.private_theta,
                            !.load_op_list = st3.load_op_list,
                            !.retrieve_op_list = st3.retrieve_op_list],
        graph |-> [g EXCEPT !.variables = st3.variables]]

---------------------------------------------------------------------------
(* TPUEmbeddingTable.CpuEmbLookup.  A vector is [num, scale]: the vector   *)
(* num divided by 1 (scale <<"one", 1>>), by n (<<"count", n>>) or by the  *)
(* square root of n (<<"sqrt_count", n>>).                                 *)

\* The value of row r of shard s: the variables are initialised at random,
\* so any values do; these are positive and differ from row to row.
WmRow(t, s, r) ==
    [c \in 1..t.params.embedding_dim |->
        c + t.params.embedding_dim * (r + t.ids_per_shard * s)]

ZeroRow(t) == [c \in 1..t.params.embedding_dim |-> 0]

Plain(row) == [num |-> row, scale |-> <<"one", 1>>]

ZeroVec(t) == Plain(ZeroRow(t))

\* tf.gather(params[s], r) on a shard of ids_per_shard rows.  A row outside
\* the shard is an error on a CPU device and a row of zeros on a GPU.
Gather(t, s, r, on_gpu) ==
    IF r \in 0..(t.ids_per_shard - 1)
    THEN [status |-> "ok", row |-> WmRow(t, s, r)]
    ELSE IF on_gpu
    THEN [status |-> "ok", row |-> ZeroRow(t)]
    ELSE [status |-> "InvalidArgumentError"]

\* tf.nn.embedding_lookup(theta.wm, id) with the default "mod" partition
\* strategy: shard id % n, row id // n (both flooring).
EmbeddingLookup(t, id, on_gpu) ==
    LET n == Len(t.private_theta["wm"])
    IN Gather(t, id % n, id \div n, on_gpu)

RECURSIVE SumRows(_, _)
\* The elementwise sum of a sequence of rows.
SumRows(rows, zero) ==
    IF rows = <<>> THEN zero
    ELSE LET rest == SumRows(Tail(rows), zero)
         IN [c \in DOMAIN zero |-> Head(rows)[c] + rest[c]]

\* The ids of one example that tf.where(tf.not_equal(ids, -1)) keeps.
NonPadding(example) == SelectSeq(example, LAMBDA id : id # -1)

\* embedding_lookup_sparse's row for one example whose kept ids are kept;
\* a combiner of None is the library's default, mean.
CombineRows(t, kept, combiner) ==
    IF kept = <<>> THEN ZeroVec(t)
    ELSE LET rows == [j \in 1..Len(kept) |->
                         EmbeddingLookup(t, kept[j], FALSE).row]
             total == SumRows(rows, ZeroRow(t))
         IN [num |-> total,
             scale |-> IF combiner = "sum" THEN <<"one", 1>>
                       ELSE IF combiner = "sqrtn"
                       THEN <<"sqrt_count", Len(kept)>>
                       ELSE <<"count", Len(kept)>>]

\* The number of rows embedding_lookup_sparse returns: the smallest span
\* from example 0 that covers every example with an id.
SparseSpan(ids) ==
    LET nonempty == {b \in 1..Len(ids) : NonPadding(ids[b]) # <<>>}
    IN IF nonempty = {} THEN 0
       ELSE CHOOSE b \in nonempty : \A c \in nonempty : c <= b

\* Lines 392-417 for one input key.
CombinerLookup(t, ids) ==
    LET batch_size == Len(ids)
        embs == [b \in 1..SparseSpan(ids) |->
                    CombineRows(t, NonPadding(ids[b]), t.params.combiner)]
        dim0_padlen == batch_size - Len(embs)
        padded == embs \o [b \in 1..dim0_padlen |-> ZeroVec(t)]
    IN [status |-> "ok",
        shape |-> <<batch_size, 1, t.params.embedding_dim>>,
        value |-> [b \in 1..batch_size |-> <<padded[b]>>]]

\* Lines 386-389 for one input key.
SequenceLookup(t, ids, on_gpu) ==
    LET got == [b \in 1..Len(ids) |->
                   [j \in 1..Len(ids[b]) |->
                       EmbeddingLookup(t, ids[b][j], on_gpu)]]
    IN IF \E b \in 1..Len(ids) : \E j \in 1..Len(ids[b]) :
              got[b][j].status # "ok"
       THEN [status |-> "InvalidArgumentError"]
       ELSE [status |-> "ok",
             shape |-> <<Len(ids), Len(ids[1]), t.params.embedding_dim>>,
             value |-> [b \in 1..Len(ids) |->
                           [j \in 1..Len(ids[b]) |-> Plain(got[b][j].row)]]]

\* CpuEmbLookup(ids_map): the activations by key, or the error of the
\* first failing key.
CpuEmbLookup(t, ids, on_gpu) ==
    LET rets == [k \in DOMAIN ids |->
                    IF t.max_sequence_length > 0
                    THEN SequenceLookup(t, ids[k], on_gpu)
                    ELSE CombinerLookup(t, ids[k])]
    IN IF \E k \in DOMAIN ids : rets[k].status # "ok"
       THEN [status |-> "InvalidArgumentError"]
       ELSE [status |-> "ok", acts |-> rets]

\* The [batch, sequence] id tensors for a vocabulary of vocab ids; -1 pads.
IdTensors(vocab) ==
    UNION {[1..b -> [1..l -> -1..(vocab - 1)]] :
              b \in 1..MaxBatch, l \in 1..MaxIdsLen}

\* Whether the kernels that read a variable placed on device may run on a
\* GPU: a variable with no device is placed by the runtime.
MayRunOnGpu(device) == IF device = None THEN BOOLEAN ELSE {FALSE}

---------------------------------------------------------------------------
(* Parameter spaces. *)
Combiners == {"sum", "sqrtn", "mean", "None"}
Schedules == {"sched"}
AccumulatorValues == {"0.1", "0.5"}

OptimizerParams ==
    {[cls |-> "TPUEmbeddingSGDOptimizer", learning_rate |-> None]}
    \cup {[cls |-> "TPUEmbeddingAdagradOptimizer", learning_rate |-> None,
           initial_accumulator |-> a] : a \in AccumulatorValues}

TableParams ==
    [name : {"", "emb"},
     vocab_size : 0..MaxVocab,
     embedding_dim : 0..MaxDim,
     input_keys : {<<>>, <<"a">>},
     combiner : Combiners,
     max_sequence_length : {None} \cup {Some(i) : i \in -1..MaxSeqLen},
     num_tpu_hosts : 0..MaxHosts,
     optimizer : {Some(o) : o \in OptimizerParams},
     learning_rate : {None, Some("lr")},
     lr_schedule : {None} \cup {Some(s) : s \in Schedules}]

NoTable == [status |-> "none"]
NoLayer == [status |-> "none"]
NoParams == [name |-> ""]

---------------------------------------------------------------------------
(* The preprocessors of input_preprocessors_test.py.  A constant_value is  *)
(* a Python number or a list of numbers: is_list tells which, elems are    *)
(* its numbers, each with its Python type.                                 *)

Scalar(type, v) == [is_list |-> FALSE, elems |-> <<[type |-> type, v |-> v]>>]
List(elems) == [is_list |-> TRUE, elems |-> elems]

\* np.array(value).shape
NpShape(value) == IF value.is_list THEN <<Len(value.elems)>> ELSE <<>>

\* np.array(value).dtype, as tf.as_dtype names it: an array of Python ints
\* is int64, and one float makes it float64.
NpDType(value) ==
    IF \E i \in 1..Len(value.elems) : value.elems[i].type = "float"
    THEN "float64" ELSE "int64"

\* ConstantPreprocessor.TransformFeatures
ConstantTransformFeatures(p, features) ==
    Put(features, p.key_name, p.constant_value)

ConstantTransformShapesDefaultKey(p, shapes) ==
    Put(shapes, "value", NpShape(p.constant_value))

\* ConstantPreprocessor.TransformShapes
ConstantTransformShapes(p, shapes) ==
    Put(shapes, p.key_name, NpShape(p.constant_value))

\* ConstantPreprocessor.TransformDTypes
ConstantTransformDTypes(p, dtypes) ==
    Put(dtypes, p.key_name, NpDType(p.constant_value))

\* RandomChoicePreprocessor.TransformShapes: each subprocessor transforms
\* its own copy of the shapes; the results must all be equal, and the
\* first is returned.
ChoiceTransformShapes(p, shapes) ==
    LET transformed == [i \in 1..Len(p.subprocessors) |->
                            ConstantTransformShapes(p.subprocessors[i], shapes)]
    IN IF \A i \in 1..Len(transformed) : transformed[1] = transformed[i]
       THEN [status |-> "ok", in |-> shapes, out |-> transformed[1]]
       ELSE [status |-> "ValueError", in |-> shapes, out |-> shapes]

\* RandomChoicePreprocessor.TransformDTypes, likewise.
ChoiceTransformDTypes(p, dtypes) ==
    LET transformed == [i \in 1..Len(p.subprocessors) |->
                            ConstantTransformDTypes(p.subprocessors[i], dtypes)]
    IN IF \A i \in 1..Len(transformed) : transformed[1] = transformed[i]
       THEN [status |-> "ok", in |-> dtypes, out |-> transformed[1]]
       ELSE [status |-> "ValueError", in |-> dtypes, out |-> dtypes]

ConstantValues ==
    {Scalar("int", 1), Scalar("int", 2), Scalar("float", 2),
     List(<<[type |-> "int", v |-> 2], [type |-> "int", v |-> 3]>>)}

ConstantParams ==
    [constant_value : ConstantValues, key_name : {"value", "foo", "weights"}]

ChoiceParams ==
    [weight_tensor_key : {"weights"},
     subprocessors : UNION {[1..n -> ConstantParams] : n \in 1..MaxSubs}]

NoPreprocessor == [status |-> "none"]

NoPreprocessing ==
    /\ preprocessor = NoPreprocessor
    /\ new_shapes = None
    /\ new_dtypes = None

---------------------------------------------------------------------------
(* The life of one TPUEmbeddingTable. *)
InitTable ==
    /\ pc = "params"
    /\ use_tpu \in BOOLEAN
    /\ do_eval \in BOOLEAN
    /\ tparams \in TableParams
    /\ table = NoTable
    /\ graph = EmptyGraph
    /\ lr_out = None
    /\ ids_map = EmptyDict
    /\ ret = None
    /\ lparams = NoParams
    /\ layer = NoLayer
    /\ NoPreprocessing
    /\ layers = <<>>

\* TPUEmbeddingTable(params)
TableConstruct ==
    /\ pc = "params"
    /\ table' = TableNew(tparams)
    /\ pc' = IF table'.status = "ok" THEN "constructed" ELSE "failed"
    /\ UNCHANGED <<pvars, layers>>
    /\ UNCHANGED <<use_tpu, do_eval, tparams, graph, lr_out, ids_map, ret, lvars>>

\* table_config.learning_rate_fn(step), as the embedding library calls it.
TableCallLearningRateFn ==
    /\ pc \in {"constructed", "ready"}
    /\ table.table_config.learning_rate_fn # None
    /\ Len(graph.TPU_EMBEDDING_SUMMARY_TENSORS) < MaxCalls
    /\ \E step \in 0..MaxStep :
        LET f == table.table_config.learning_rate_fn[1]
            lr == LearningRateFn(f, step)
        IN /\ lr_out' = Some([step |-> step, lr |-> lr])
           /\ graph' = AddTpuEmbeddingSummaryTensor(
                           graph, "tpu_embedding_lr/" \o f.name, lr)
    /\ UNCHANGED <<pvars, layers>>
    /\ UNCHANGED <<pc, use_tpu, do_eval, tparams, table, ids_map, ret, lvars>>

\* table.InstantiateVariables()
TableInstantiateVariables ==
    /\ pc = "constructed"
    /\ LET r == TableCreateLayerVariables(table, graph, use_tpu, do_eval)
       IN /\ table' = r.table
          /\ graph' = r.graph
    /\ pc' = "ready"
    /\ UNCHANGED <<pvars, layers>>
    /\ UNCHANGED <<use_tpu, do_eval, tparams, lr_out, ids_map, ret, lvars>>

NextTable ==
    \/ TableConstruct
    \/ TableInstantiateVariables
    \/ TableCallLearningRateFn

SpecTable == InitTable /\ [][NextTable]_vars

---------------------------------------------------------------------------
(* The host lookups of one table: the table is built and its variables are *)
(* created off TPU, then CpuEmbLookup is called.                           *)
LookupTableParams ==
    [name : {"emb"},
     vocab_size : 1..MaxVocab,
     embedding_dim : 1..MaxDim,
     input_keys : {<<"a">>},
     combiner : Combiners,
     max_sequence_length : {None} \cup {Some(i) : i \in -1..MaxSeqLen},
     num_tpu_hosts : 1..MaxHosts,
     optimizer : {Some([cls |-> "TPUEmbeddingSGDOptimizer",
                        learning_rate |-> None])},
     learning_rate : {None},
     lr_schedule : {None}]

InitLookup ==
    /\ pc = "params"
    /\ use_tpu = FALSE
    /\ do_eval \in BOOLEAN
    /\ tparams \in LookupTableParams
    /\ table = NoTable
    /\ graph = EmptyGraph
    /\ lr_out = None
    /\ ids_map = EmptyDict
    /\ ret = None
    /\ lparams = NoParams
    /\ layer = NoLayer
    /\ NoPreprocessing
    /\ layers = <<>>

\* table.CpuEmbLookup(ids_map)
TableCpuEmbLookup ==
    /\ pc = "ready"
    /\ ~use_tpu
    /\ \E m \in [{table.input_keys[i] : i \in 1..Len(table.input_keys)}
                    -> IdTensors(tparams.vocab_size)] :
       \E on_gpu \in MayRunOnGpu(GetDeviceName(do_eval, 0)) :
        /\ ids_map' = m
        /\ ret' = Some(CpuEmbLookup(table, m, on_gpu))
    /\ pc' = "looked"
    /\ UNCHANGED <<pvars, layers>>
    /\ UNCHANGED <<use_tpu, do_eval, tparams, table, graph, lr_out, lvars>>

NextLookup ==
    \/ TableConstruct
    \/ TableInstantiateVariables
    \/ TableCpuEmbLookup

SpecLookup == InitLookup /\ [][NextLookup]_vars

---------------------------------------------------------------------------
(* TPUEmbeddingLayer. *)

\* The assertions that open TPUEmbeddingLayer.__init__.
LayerAsserts(lp) ==
    /\ lp.tables # <<>>
    /\ lp.batch_size > 0
    /\ lp.name # ""
    /\ \A i \in 1..Len(lp.tables) :
        lp.tables[i].num_tpu_hosts = lp.tables[1].num_tpu_hosts

\* any(table_params.optimizer is None for table_params in p.tables)
TableOptimizerMissing(lp) ==
    \E i \in 1..Len(lp.tables) : lp.tables[i].optimizer = None

NoCopy(op, i) == op

\* Params.Copy(): an equal params object of its own, here the one made for
\* table number i.
Copy(op, i) == [op EXCEPT !.oid = "copy_" \o ToString(i)]

\* Lines 464-467: p.tables once the tables without an optimizer got theirs.
ResolveOptimizers(lp) ==
    [i \in 1..Len(lp.tables) |->
        IF TableOptimizerMissing(lp) /\ lp.tables[i].optimizer = None
        THEN [lp.tables[i] EXCEPT !.optimizer = Some(Copy(lp.optimizer[1], i))]
        ELSE lp.tables[i]]

\* self.CreateChildren('tables', p.tables): the tables, or the exception of
\* the first table whose constructor raises.
CreateChildren(tps) ==
    LET made == [i \in 1..Len(tps) |-> TableNew(tps[i])]
        bad == {i \in 1..Len(tps) : made[i].status # "ok"}
    IN IF bad = {} THEN [status |-> "ok", tables |-> made]
       ELSE [status |-> made[CHOOSE i \in bad : \A j \in bad : i <= j].status,
             tables |-> <<>>]

\* TPUEmbeddingLayer.__init__: the layer, or the exception with the params
\* as the constructor left them and no table child.
LayerNew(lp) ==
    IF ~LayerAsserts(lp)
    THEN [status |-> "AssertionError", params |-> lp, tables |-> <<>>]
    ELSE IF lp.optimizer = None /\ TableOptimizerMissing(lp)
    THEN [status |-> "ValueError", params |-> lp, tables |-> <<>>]
    ELSE LET p == [lp EXCEPT !.tables = ResolveOptimizers(lp)]
             children == CreateChildren(p.tables)
         IN [status |-> children.status,
             params |-> p,
             tables |-> children.tables,
             sequence_features |-> {},
             tpu_embedding |-> None]

\* The cluster: the cores of a replica and the splits of a client.
Cluster == [tpus_per_replica |-> 2, num_splits_per_client |-> 2]

RECURSIVE TablesCreateVariables(_, _, _, _, _)
\* _CreateChildrenVariables: table.InstantiateVariables() for each table
\* from number i on, in order, on graph g.
TablesCreateVariables(tables, g, tpu, eval, i) ==
    IF i > Len(tables) THEN [tables |-> tables, graph |-> g]
    ELSE LET r == TableCreateLayerVariables(tables[i], g, tpu, eval)
         IN TablesCreateVariables([tables EXCEPT ![i] = r.table], r.graph,
                                  tpu, eval, i + 1)

RECURSIVE Concat(_)
\* list += list, over a sequence of lists.
Concat(lists) ==
    IF lists = <<>> THEN <<>> ELSE Head(lists) \o Concat(Tail(lists))

\* The input keys of a table, as a set.
Keys(t) == {t.input_keys[j] : j \in 1..Len(t.input_keys)}

\* The last table that declares feature k (a later dict entry replaces an
\* earlier one).
TableOf(tables, k) ==
    tables[CHOOSE i \in 1..Len(tables) :
              /\ k \in Keys(tables[i])
              /\ \A j \in 1..Len(tables) : k \in Keys(tables[j]) => j <= i]

Features(tables) == UNION {Keys(tables[i]) : i \in 1..Len(tables)}

\* tpu_embedding_lib.FeatureConfig(table_name, max_sequence_length): the
\* library refuses (ValueError) a negative max_sequence_length.
FeatureConfigValid(max_sequence_length) == max_sequence_length >= 0

FeatureConfig(t) ==
    [table_id |-> t.table_name, max_sequence_length |-> t.max_sequence_length]

\* Lines 494-502: the config dicts of the layer's tables.
TableToConfigDict(tables) ==
    [name \in {tables[i].table_name : i \in 1..Len(tables)} |->
        (CHOOSE i \in 1..Len(tables) :
            /\ tables[i].table_name = name
            /\ \A j \in 1..Len(tables) :
                tables[j].table_name = name => j <= i)]

FeatureToConfigDict(tables) ==
    [k \in Features(tables) |-> FeatureConfig(TableOf(tables, k))]

SequenceFeatures(tables) ==
    {k \in Features(tables) :
        \E i \in 1..Len(tables) :
            k \in Keys(tables[i]) /\ tables[i].max_sequence_length > 0}

\* tpu_embedding_lib.TPUEmbedding(...) of lines 514-527.
TPUEmbeddingNew(l, tables) ==
    [table_to_config_dict |->
        [name \in DOMAIN TableToConfigDict(tables) |->
            tables[TableToConfigDict(tables)[name]].table_config],
     feature_to_config_dict |-> FeatureToConfigDict(tables),
     batch_size |-> l.params.batch_size * Cluster.num_splits_per_client,
     mode |-> "TRAINING",
     pipeline_execution_with_tensor_core |->
        l.params.pipeline_execution_with_tensor_core,
     device_config |->
        [num_cores |-> Cluster.tpus_per_replica,
         num_hosts |-> l.params.tables[1].num_tpu_hosts,
         job_name |-> WorkerName]]

LayerOwnVariablesNoReuse(l, tables, g, tpu) ==
    IF ~tpu
    THEN [status |-> "ok",
          layer |-> [l EXCEPT !.tables = tables, !.sequence_features = {}],
          graph |-> g]
    ELSE LET made == TPUEmbeddingNew(l, tables)
         IN [status |-> "ok",
             layer |-> [l EXCEPT !.tables = tables,
                                 !.sequence_features = SequenceFeatures(tables),
                                 !.tpu_embedding = Some(made)],
             graph |-> [g EXCEPT !.TPU_EMBEDDING = Append(@, made)]]

\* TPUEmbeddingLayer._CreateLayerVariables after the tables' variables:
\* the layer and the graph it leaves, or the library's exception.
LayerOwnVariables(l, tables, g, tpu) ==
    IF ~tpu
    THEN [status |-> "ok",
          layer |-> [l EXCEPT !.tables = tables, !.sequence_features = {}],
          graph |-> g]
    ELSE IF \E i \in 1..Len(tables) :
                ~FeatureConfigValid(tables[i].max_sequence_length)
    THEN [status |-> "ValueError", layer |-> l, graph |-> g]
    ELSE LET load_op_list ==
                 Concat([i \in 1..Len(tables) |-> tables[i].load_op_list])
             retrieve_op_list ==
                 Concat([i \in 1..Len(tables) |-> tables[i].retrieve_op_list])
             g1 == [g EXCEPT
                       !.TPU_EMBEDDING_LOAD_OPS = Append(@, load_op_list),
                       !.TPU_EMBEDDING_RETRIEVE_OPS =
                           Append(@, retrieve_op_list)]
             found == g1.TPU_EMBEDDING
         IN IF Len(found) > 1
            THEN [status |-> "AssertionError", layer |-> l, graph |-> g1]
            ELSE IF Len(found) = 1
            THEN [status |-> "ok",
                  layer |-> [l EXCEPT
                                !.tables = tables,
                                !.sequence_features = SequenceFeatures(tables),
                                !.tpu_embedding = Some(found[1])],
                  graph |-> g1]
            ELSE LET made == TPUEmbeddingNew(l, tables)
                 IN [status |-> "ok",
                     layer |-> [l EXCEPT
                                   !.tables = tables,
                                   !.sequence_features =
                                       SequenceFeatures(tables),
                                   !.tpu_embedding = Some(made)],
                     graph |-> [g1 EXCEPT
                                   !.TPU_EMBEDDING = Append(@, made)]]

\* layer.InstantiateVariables(): the tables' variables, then the layer's.
LayerInstantiate(l, g, tpu, eval) ==
    LET r == TablesCreateVariables(l.tables, g, tpu, eval, 1)
    IN LayerOwnVariables(l, r.tables, r.graph, tpu)

\* self._tpu_embedding.get_activations(): per feature of the embedding
\* object, [batch, dim], or [batch, max_sequence_length, dim] for a
\* sequence feature, for the batch of one core.
GetActivations(e) ==
    LET batch == e.batch_size \div e.device_config.num_cores
    IN [k \in DOMAIN e.feature_to_config_dict |->
           LET fc == e.feature_to_config_dict[k]
               dim == e.table_to_config_dict[fc.table_id].dimension
           IN [shape |-> IF fc.max_sequence_length > 0
                         THEN <<batch, fc.max_sequence_length, dim>>
                         ELSE <<batch, dim>>]]

\* tf.expand_dims(v, axis=[1])
ExpandDims1(v) ==
    [shape |-> <<v.shape[1], 1>> \o SubSeq(v.shape, 2, Len(v.shape))]

\* EmbLookup's TpuEmbLookup.
TpuEmbLookup(l) ==
    LET activations == GetActivations(l.tpu_embedding[1])
    IN [path |-> "tpu", status |-> "ok",
        acts |-> [k \in DOMAIN activations |->
                     IF k \in l.sequence_features
                     THEN activations[k]
                     ELSE ExpandDims1(activations[k])]]

\* EmbLookup's CpuEmbLookup: each table looks up its own keys and the
\* results are merged.
LayerCpuEmbLookup(l, ids, on_gpu) ==
    LET rets == [i \in 1..Len(l.tables) |->
                    CpuEmbLookup(l.tables[i],
                                 [k \in Keys(l.tables[i]) |-> ids[k]], on_gpu)]
    IN IF \E i \in 1..Len(l.tables) : rets[i].status # "ok"
       THEN [path |-> "cpu", status |-> "InvalidArgumentError"]
       ELSE [path |-> "cpu", status |-> "ok",
             acts |-> [k \in Features(l.tables) |->
                          LET i == CHOOSE i \in 1..Len(l.tables) :
                                     /\ k \in Keys(l.tables[i])
                                     /\ \A j \in 1..Len(l.tables) :
                                          k \in Keys(l.tables[j]) => j <= i
                          IN rets[i].acts[k]]]

\* TPUEmbeddingLayer.EmbLookup(ids_map)
EmbLookup(l, ids, tpu, on_gpu) ==
    IF ~tpu THEN LayerCpuEmbLookup(l, ids, on_gpu) ELSE TpuEmbLookup(l)

---------------------------------------------------------------------------
(* The life of one TPUEmbeddingLayer: construction, variable creation and  *)
(* one EmbLookup.                                                          *)
MaxTables == 2

\* The (combiner, max_sequence_length) pairs of the layer's tables.
LayerShapes ==
    {<<"mean", None>>, <<"None", Some(MaxSeqLen)>>, <<"None", Some(-1)>>,
     <<"sum", Some(1)>>}

TableOwnOptimizer(i) ==
    Some([cls |-> "TPUEmbeddingSGDOptimizer", learning_rate |-> None,
          oid |-> "table_" \o ToString(i)])

\* The params of table number i: its name and its input key are its own,
\* and so is its optimizer params object when it has one.
LayerTableParams(i, dims, shapes, own) ==
    {[name |-> "t" \o ToString(i),
      vocab_size |-> 1,
      embedding_dim |-> d,
      input_keys |-> <<"f" \o ToString(i)>>,
      combiner |-> sh[1],
      max_sequence_length |-> sh[2],
      num_tpu_hosts |-> h,
      optimizer |-> o,
      learning_rate |-> None,
      lr_schedule |-> None] :
        d \in dims, sh \in shapes, h \in 1..2,
        o \in {None} \cup (IF own THEN {TableOwnOptimizer(i)} ELSE {})}

\* The lists of zero to MaxTables table params.
LayerTables(counts, dims, shapes, own) ==
    UNION {{tps \in [1..n -> UNION {LayerTableParams(i, dims, shapes, own) :
                                       i \in 1..n}] :
               \A i \in 1..n :
                   tps[i] \in LayerTableParams(i, dims, shapes, own)} :
           n \in counts}

LayerOptimizers ==
    {None,
     Some([cls |-> "TPUEmbeddingAdagradOptimizer", learning_rate |-> None,
           initial_accumulator |-> "0.1", oid |-> "layer"]),
     Some([cls |-> "TPUEmbeddingSGDOptimizer", learning_rate |-> None,
           oid |-> "layer"])}

LayerParams ==
    [name : {"", "emb_layer"},
     tables : LayerTables(0..MaxTables, {MaxDim}, LayerShapes, TRUE),
     pipeline_execution_with_tensor_core : {FALSE},
     batch_size : {0, MaxBatch},
     optimizer : LayerOptimizers]

\* The ids of a lookup: one [batch, l] tensor per feature, filled with one
\* id of a one-word vocabulary or with the padding id, with the batch
\* dimension shared by the features.
LayerIdsMaps(features) ==
    UNION {[features -> {[b \in 1..batch |-> [j \in 1..l |-> v]] :
                            l \in 1..MaxIdsLen, v \in {-1, 0}}] :
           batch \in 1..MaxBatch}

Init ==
    /\ pc = "params"
    /\ use_tpu \in BOOLEAN
    /\ do_eval \in BOOLEAN
    /\ tparams = NoParams
    /\ table = NoTable
    /\ graph = EmptyGraph
    /\ lr_out = None
    /\ ids_map = EmptyDict
    /\ ret = None
    /\ lparams \in LayerParams
    /\ layer = NoLayer
    /\ NoPreprocessing
    /\ layers = <<>>

\* TPUEmbeddingLayer(params)
LayerConstruct ==
    /\ pc = "params"
    /\ layer' = LayerNew(lparams)
    /\ pc' = IF layer'.status = "ok" THEN "constructed" ELSE "failed"
    /\ UNCHANGED <<pvars, layers>>
    /\ UNCHANGED <<use_tpu, do_eval, tparams, table, graph, lr_out, ids_map,
                   ret, lparams>>

\* layer.InstantiateVariables()
LayerInstantiateVariables ==
    /\ pc = "constructed"
    /\ LET r == LayerInstantiate(layer, graph, use_tpu, do_eval)
       IN /\ layer' = [r.layer EXCEPT !.status = r.status]
          /\ graph' = r.graph
          /\ pc' = IF r.status = "ok" THEN "ready" ELSE "failed"
    /\ UNCHANGED <<pvars, layers>>
    /\ UNCHANGED <<use_tpu, do_eval, tparams, table, lr_out, ids_map, ret,
                   lparams>>

\* layer.EmbLookup(ids_map)
LayerEmbLookup ==
    /\ pc = "ready"
    /\ \E m \in LayerIdsMaps(Features(layer.tables)) :
       \E on_gpu \in MayRunOnGpu(GetDeviceName(do_eval, 0)) :
        LET r == EmbLookup(layer, m, use_tpu, on_gpu)
        IN /\ ids_map' = m
           /\ ret' = Some(r)
           /\ graph' = IF r.path = "tpu"
                       THEN [graph EXCEPT !.TPU_EMBEDDING_ACTIVATIONS =
                                Append(@, GetActivations(layer.tpu_embedding[1]))]
                       ELSE graph
    /\ pc' = "looked"
    /\ UNCHANGED <<pvars, layers>>
    /\ UNCHANGED <<use_tpu, do_eval, tparams, table, lr_out, lparams, layer>>

Next ==
    \/ LayerConstruct
    \/ LayerInstantiateVariables

Spec == Init /\ [][Next]_vars

---------------------------------------------------------------------------
(* The lookups of a layer whose construction can succeed. *)
LookupLayerParams ==
    [name : {"emb_layer"},
     tables : LayerTables(1..MaxTables, 1..MaxDim,
                          LayerShapes \cup {<<"None", Some(1)>>}, FALSE),
     pipeline_execution_with_tensor_core : {FALSE},
     batch_size : 1..MaxBatch,
     optimizer : {Some([cls |-> "TPUEmbeddingAdagradOptimizer",
                        learning_rate |-> None,
                        initial_accumulator |-> "0.1", oid |-> "layer"])}]

InitEmbLookup ==
    /\ pc = "params"
    /\ use_tpu \in BOOLEAN
    /\ do_eval \in BOOLEAN
    /\ tparams = NoParams
    /\ table = NoTable
    /\ graph = EmptyGraph
    /\ lr_out = None
    /\ ids_map = EmptyDict
    /\ ret = None
    /\ lparams \in LookupLayerParams
    /\ layer = NoLayer
    /\ NoPreprocessing
    /\ layers = <<>>

NextEmbLookup ==
    \/ LayerConstruct
    \/ LayerInstantiateVariables
    \/ LayerEmbLookup

SpecEmbLookup == InitEmbLookup /\ [][NextEmbLookup]_vars

---------------------------------------------------------------------------
(* Properties of the table. *)

Constructed == pc \in {"constructed", "ready"}

\* The variables of the graph called name.
Named(name) ==
    {j \in 1..Len(graph.variables) : graph.variables[j].name = name}

\* The shard variable of host i, once the variables exist.
ShardVar(i) == graph.variables[CHOOSE j \in Named(GetVariableName(i)) : TRUE]

\* C1: a constructed table's ids_per_shard is the least k with
\* k * num_tpu_hosts >= vocab_size, the vocabulary size given to the table
\* config is ids_per_shard * num_tpu_hosts, which lies in
\* [vocab_size, vocab_size + num_tpu_hosts), and each of the num_tpu_hosts
\* shard variables has ids_per_shard rows.
C1_ShardingIsCeiling ==
    Constructed =>
        LET v == tparams.vocab_size
            n == tparams.num_tpu_hosts
            k == table.ids_per_shard
            padded == table.table_config.vocabulary_size
        IN /\ k * n >= v
           /\ (k - 1) * n < v
           /\ padded = k * n
           /\ v <= padded
           /\ padded < v + n
           /\ pc = "ready" =>
                \A i \in 0..(n - 1) :
                    /\ Cardinality(Named(GetVariableName(i))) = 1
                    /\ ShardVar(i).shape[1] = k

C1_Witness ==
    /\ pc = "ready"
    /\ tparams.vocab_size = 4
    /\ tparams.num_tpu_hosts = 3
    /\ table.ids_per_shard = 2

\* C3: a constructed table has combiner None exactly when its
\* max_sequence_length property is positive, otherwise its combiner is one of
\* sum, sqrtn, mean and the property is 0; every other pairing of the two
\* params is refused with an AssertionError.
C3_CombinerIffSequence ==
    /\ Constructed =>
        /\ (table.params.combiner = "None") <=> (table.max_sequence_length > 0)
        /\ table.params.combiner # "None" =>
            /\ table.params.combiner \in {"sum", "sqrtn", "mean"}
            /\ table.max_sequence_length = 0
    /\ (/\ pc # "params"
        /\ ~(\/ /\ tparams.combiner = "None"
                /\ tparams.max_sequence_length # None
                /\ tparams.max_sequence_length[1] > 0
             \/ /\ tparams.combiner \in {"sum", "sqrtn", "mean"}
                /\ ~Truthy(tparams.max_sequence_length)))
        => (pc = "failed" /\ table.status = "AssertionError")

C9_LoadRetrieveOps ==
    pc = "ready" =>
        LET n == tparams.num_tpu_hosts
            load == table.load_op_list
            retrieve == table.retrieve_op_list
        IN /\ Len(load) = Len(retrieve)
           /\ (use_tpu /\ ~do_eval) =>
                /\ Len(load) = n
                /\ \A i \in 0..(n - 1) :
                    /\ load[i + 1].shard_id = i
                    /\ load[i + 1].num_shards = n
                    /\ load[i + 1].table_name = table.table_name
                    /\ load[i + 1].parameters = "var_" \o ToString(i)
                    /\ retrieve[i + 1].shard_id = i
                    /\ retrieve[i + 1].num_shards = n
                    /\ retrieve[i + 1].table_name = table.table_name
                    /\ retrieve[i + 1].assigns[1] = "var_" \o ToString(i)
           /\ (~use_tpu \/ do_eval) => (load = <<>> /\ retrieve = <<>>)

C9_Witness ==
    /\ pc = "ready"
    /\ use_tpu
    /\ ~do_eval
    /\ tparams.num_tpu_hosts = 3
    /\ Len(table.load_op_list) = 3

\* C10: outside eval, with Adagrad each shard i has exactly one slot
\* variable var_<i>/Adagrad, not trainable, of the shard's shape, initialised
\* to initial_accumulator and on the shard's device, on TPU or not, and
\* retrieve op i assigns the shard and its accumulator; with SGD the shards
\* are the only variables and retrieve op i assigns the shard alone.
C10_AdagradSlots ==
    (pc = "ready" /\ ~do_eval) =>
        LET n == tparams.num_tpu_hosts
            adagrad == table.optimizer.cls = "TPUEmbeddingAdagradOptimizer"
        IN /\ adagrad =>
                /\ Len(graph.variables) = 2 * n
                /\ \A i \in 0..(n - 1) :
                    LET slots == Named("var_" \o ToString(i) \o "/Adagrad")
                        slot == graph.variables[CHOOSE j \in slots : TRUE]
                    IN /\ Cardinality(slots) = 1
                       /\ ~slot.trainable
                       /\ slot.shape = ShardVar(i).shape
                       /\ slot.init = [method |-> "Constant",
                                       value |-> Some(tparams.optimizer[1]
                                                        .initial_accumulator)]
                       /\ slot.device = ShardVar(i).device
                       /\ use_tpu =>
                            table.retrieve_op_list[i + 1].assigns
                                = <<ShardVar(i).name, slot.name>>
           /\ ~adagrad =>
                /\ Len(graph.variables) = n
                /\ \A i \in 0..(n - 1) :
                    /\ Cardinality(Named("var_" \o ToString(i))) = 1
                    /\ use_tpu =>
                        table.retrieve_op_list[i + 1].assigns
                            = <<ShardVar(i).name>>

C10_Witness ==
    /\ pc = "ready"
    /\ ~do_eval
    /\ ~use_tpu
    /\ table.optimizer.cls = "TPUEmbeddingAdagradOptimizer"
    /\ tparams.num_tpu_hosts = 2
    /\ Named("var_1/Adagrad") # {}

\* C12: once the table's variables are created, no shard name var_i is a
\* key of the table's private vars or private theta; off TPU both have the
\* key wm, the vars' wm being the num_tpu_hosts shard variables of the
\* graph in host order and the theta's wm the identities of these; on TPU
\* neither has the key wm.
C12_ShardsExposedAsWm ==
    pc = "ready" =>
        LET n == tparams.num_tpu_hosts
            pv == table.private_vars
            pt == table.private_theta
        IN /\ \A i \in 0..(n - 1) :
                /\ GetVariableName(i) \notin DOMAIN pv
                /\ GetVariableName(i) \notin DOMAIN pt
           /\ ~use_tpu =>
                /\ "wm" \in DOMAIN pv /\ "wm" \in DOMAIN pt
                /\ Len(pv["wm"]) = n /\ Len(pt["wm"]) = n
                /\ \A i \in 0..(n - 1) :
                    /\ pv["wm"][i + 1] = ShardVar(i)
                    /\ pv["wm"][i + 1].device = GetDeviceName(do_eval, i)
                    /\ pt["wm"][i + 1] = Identity(ShardVar(i))
           /\ use_tpu => "wm" \notin DOMAIN pv /\ "wm" \notin DOMAIN pt

\* Off TPU, a table of several hosts with an Adagrad slot per shard: wm
\* lists the shards in host order beside the slots.
C12_Witness ==
    /\ pc = "ready"
    /\ tparams.num_tpu_hosts = MaxHosts
    /\ ~use_tpu /\ ~do_eval
    /\ table.optimizer.cls = "TPUEmbeddingAdagradOptimizer"
    /\ DOMAIN table.private_vars =
            {"wm"} \cup {GetVariableName(i) \o "/Adagrad" :
                            i \in 0..(MaxHosts - 1)}
    /\ Len(table.private_vars["wm"]) = MaxHosts
    /\ table.private_vars["wm"][MaxHosts].name = GetVariableName(MaxHosts - 1)

---------------------------------------------------------------------------
(* Properties of the host lookup. *)

\* The table row of id under the "mod" sharding of the padded vocabulary.
RowOfId(id) ==
    WmRow(table, id % tparams.num_tpu_hosts, id \div tparams.num_tpu_hosts)

\* C5: in CpuEmbLookup a position holding -1 contributes no table row: a
\* sequence table returns the zero vector there and the id's row elsewhere;
\* a non-sequence table returns one row per example, built from the rows of
\* the example's ids other than -1, and the zero vector when all are -1.
C5_PaddingIdContributesNothing ==
    pc = "looked" =>
        /\ ret[1].status = "ok"
        /\ \A k \in DOMAIN ids_map :
            LET ids == ids_map[k]
                act == ret[1].acts[k]
            IN IF table.max_sequence_length > 0
               THEN \A b \in 1..Len(ids) : \A j \in 1..Len(ids[b]) :
                        act.value[b][j].num =
                            IF ids[b][j] = -1 THEN ZeroRow(table)
                            ELSE RowOfId(ids[b][j])
               ELSE /\ Len(act.value) = Len(ids)
                    /\ \A b \in 1..Len(ids) :
                        LET real == SelectSeq(ids[b], LAMBDA id : id >= 0)
                        IN /\ Len(act.value[b]) = 1
                           /\ act.value[b][1].num =
                                SumRows([j \in 1..Len(real) |-> RowOfId(real[j])],
                                        ZeroRow(table))
                           /\ real = <<>> => act.value[b][1] = ZeroVec(table)

---------------------------------------------------------------------------
(* Several TPUEmbeddingLayers whose variables are created one after the    *)
(* other in one graph; layers holds those whose creation succeeded.        *)

\* The params of layer number k of the graph: its name and its one table
\* (table number k, feature number k) are its own, and so is its
\* batch_size when the layers are given different ones.
GraphLayerParams(k) ==
    [name : {"emb_layer_" \o ToString(k)},
     tables : {<<tp>> : tp \in LayerTableParams(k, {MaxDim},
                                   {<<"mean", None>>, <<"sum", Some(1)>>,
                                    <<"None", Some(MaxSeqLen)>>}, FALSE)},
     pipeline_execution_with_tensor_core : {FALSE},
     batch_size : {1, k},
     optimizer : {Some([cls |-> "TPUEmbeddingSGDOptimizer",
                        learning_rate |-> None, oid |-> "layer"])}]

InitLayers ==
    /\ pc = "params"
    /\ use_tpu \in BOOLEAN
    /\ do_eval \in BOOLEAN
    /\ tparams = NoParams
    /\ table = NoTable
    /\ graph = EmptyGraph
    /\ lr_out = None
    /\ ids_map = EmptyDict
    /\ ret = None
    /\ lparams = NoParams
    /\ layer = NoLayer
    /\ NoPreprocessing
    /\ layers = <<>>

\* The next TPUEmbeddingLayer(params) of the graph.
LayersConstruct ==
    /\ pc = "params"
    /\ Len(layers) < MaxLayers
    /\ \E lp \in GraphLayerParams(Len(layers) + 1) :
        /\ lparams' = lp
        /\ layer' = LayerNew(lp)
        /\ pc' = IF layer'.status = "ok" THEN "constructed" ELSE "failed"
    /\ UNCHANGED <<use_tpu, do_eval, tparams, table, graph, lr_out, ids_map,
                   ret, pvars, layers>>

\* layer.InstantiateVariables() in the graph of the layers before it.
LayersInstantiateVariables ==
    /\ pc = "constructed"
    /\ LET r == LayerInstantiate(layer, graph, use_tpu, do_eval)
       IN /\ layer' = [r.layer EXCEPT !.status = r.status]
          /\ graph' = r.graph
          /\ layers' = IF r.status = "ok" THEN Append(layers, r.layer)
                       ELSE layers
          /\ pc' = IF r.status = "ok" THEN "params" ELSE "failed"
    /\ UNCHANGED <<use_tpu, do_eval, tparams, table, lr_out, ids_map, ret,
                   lparams, pvars>>

NextLayers ==
    \/ LayersConstruct
    \/ LayersInstantiateVariables

SpecLayers == InitLayers /\ [][NextLayers]_vars

---------------------------------------------------------------------------
(* A RandomChoicePreprocessor over ConstantPreprocessors, as the test      *)
(* builds it: its params, then TransformShapes and TransformDTypes on the  *)
(* shapes and dtypes of the weights feature.                               *)

InitChoice ==
    /\ pc = "params"
    /\ use_tpu = FALSE
    /\ do_eval = FALSE
    /\ tparams = NoParams
    /\ table = NoTable
    /\ graph = EmptyGraph
    /\ lr_out = None
    /\ ids_map = EmptyDict
    /\ ret = None
    /\ lparams = NoParams
    /\ layer = NoLayer
    /\ preprocessor \in {[status |-> "params", params |-> p] : p \in ChoiceParams}
    /\ new_shapes = None
    /\ new_dtypes = None
    /\ layers = <<>>

\* preprocessor = p.Instantiate()
ChoiceInstantiate ==
    /\ preprocessor.status = "params"
    /\ preprocessor' = [preprocessor EXCEPT !.status = "ok"]
    /\ UNCHANGED <<tvars, lvars, layers, new_shapes, new_dtypes>>

\* new_shapes = preprocessor.TransformShapes(shapes)
ChoiceShapes ==
    /\ preprocessor.status = "ok"
    /\ new_shapes = None
    /\ LET shapes == Put(EmptyDict, preprocessor.params.weight_tensor_key,
                         <<Len(preprocessor.params.subprocessors)>>)
       IN new_shapes' = Some(ChoiceTransformShapes(preprocessor.params, shapes))
    /\ UNCHANGED <<tvars, lvars, layers, preprocessor, new_dtypes>>

\* new_dtypes = preprocessor.TransformDTypes(dtypes)
ChoiceDTypes ==
    /\ preprocessor.status = "ok"
    /\ new_dtypes = None
    /\ LET dtypes == Put(EmptyDict, preprocessor.params.weight_tensor_key,
                         "float32")
       IN new_dtypes' = Some(ChoiceTransformDTypes(preprocessor.params, dtypes))
    /\ UNCHANGED <<tvars, lvars, layers, preprocessor, new_shapes>>

NextChoice ==
    \/ ChoiceInstantiate
    \/ ChoiceShapes
    \/ ChoiceDTypes

SpecChoice == InitChoice /\ [][NextChoice]_vars

---------------------------------------------------------------------------
(* Properties of the layer. *)

\* The layer's constructor has run and its opening assertions passed.
LayerChecked ==
    /\ pc # "params"
    /\ lparams.tables # <<>>
    /\ lparams.batch_size > 0
    /\ lparams.name # ""
    /\ \A i \in 1..Len(lparams.tables) :
        lparams.tables[i].num_tpu_hosts = lparams.tables[1].num_tpu_hosts

NoOptimizerAnywhere ==
    /\ lparams.optimizer = None
    /\ \E i \in 1..Len(lparams.tables) : lparams.tables[i].optimizer = None

C4_LookupPathAndShapes ==
    pc = "looked" =>
        /\ ret[1].path = (IF use_tpu THEN "tpu" ELSE "cpu")
        /\ ret[1].status = "ok" =>
            \A i \in 1..Len(layer.tables) :
                \A k \in Keys(layer.tables[i]) :
                    LET t == layer.tables[i]
                        batch == IF use_tpu THEN lparams.batch_size
                                 ELSE Len(ids_map[k])
                    IN ret[1].acts[k].shape =
                        IF t.max_sequence_length > 0
                        THEN <<batch, t.max_sequence_length,
                               t.params.embedding_dim>>
                        ELSE <<batch, 1, t.params.embedding_dim>>

---------------------------------------------------------------------------
(* Properties of the layers of one graph. *)

\* C11: on TPU, however many layers have created their variables in the
\* graph, the TPU_EMBEDDING collection holds at most one TPUEmbedding
\* object; once a layer has created its variables it holds exactly the
\* object the first layer built from its own tables and batch size, and
\* every layer, the later ones included, has that object as its
\* _tpu_embedding.
C11_SingleTPUEmbedding ==
    use_tpu =>
        /\ Len(graph.TPU_EMBEDDING) <= 1
        /\ layers # <<>> =>
            /\ graph.TPU_EMBEDDING =
                    <<TPUEmbeddingNew(layers[1], layers[1].tables)>>
            /\ \A i \in 1..Len(layers) :
                    layers[i].tpu_embedding = Some(graph.TPU_EMBEDDING[1])

\* A second layer with another batch size and another table has reused the
\* first layer's object.
C11_Witness ==
    /\ use_tpu
    /\ Len(layers) = 2
    /\ layers[1].params.batch_size = 1
    /\ layers[2].params.batch_size = 2
    /\ Len(graph.TPU_EMBEDDING) = 1
    /\ layers[2].tpu_embedding = layers[1].tpu_embedding
    /\ layers[2].tpu_embedding[1].batch_size = Cluster.num_splits_per_client
    /\ DOMAIN layers[2].tpu_embedding[1].feature_to_config_dict = {"f1"}

---------------------------------------------------------------------------
(* Properties of the preprocessors. *)

\* The entry a ConstantPreprocessor makes of a constant_value: its shape in
\* a dict of shapes, its dtype in a dict of dtypes.
EntryOf(what, value) ==
    IF what = "shape" THEN NpShape(value) ELSE NpDType(value)

\* What subprocessor number i makes of the dict d: d with the entry of its
\* key_name set anew.
Produced(i, d, what) ==
    LET sub == preprocessor.params.subprocessors[i]
    IN [k \in DOMAIN d \cup {sub.key_name} |->
            IF k = sub.key_name THEN EntryOf(what, sub.constant_value)
            ELSE d[k]]

\* The subprocessors produce the same keys, with the same entry for each.
Agree(d, what) ==
    \A i, j \in 1..Len(preprocessor.params.subprocessors) :
        /\ DOMAIN Produced(i, d, what) = DOMAIN Produced(j, d, what)
        /\ \A k \in DOMAIN Produced(i, d, what) \cap DOMAIN Produced(j, d, what) :
            Produced(i, d, what)[k] = Produced(j, d, what)[k]

====
